---------------------------- MODULE Spec2Model ----------------------------
(***************************************************************************)
(* dyn-fmt: the runtime formatter `Arguments::fmt` of src/src/lib.rs.      *)
(*                                                                         *)
(* A template is a sequence of one-byte characters (one-character strings) *)
(* and an argument list is a sequence of values of one type T: of          *)
(* non-negative integers, which `Display` renders as their decimal digits, *)
(* or of non-negative decimal fractions.  One action of the model is one   *)
(* arm of the `match` that the `loop` of `fmt` executes; the variables are *)
(* the locals of `fmt`, the two fields of `Arguments`, and the sink behind *)
(* the `Formatter`.  Offsets are the 0-based byte offsets of the Rust      *)
(* code; sequences are 1-based, so byte k of `fmt` is fmt[k + 1].          *)
(***************************************************************************)
EXTENDS Integers, Sequences, FiniteSets, TLC

VARIABLES
    tmpl,             \* self.fmt.as_ref(): the whole template
    ty,               \* T, the type of the arguments: "i32" or "f64"
    args,             \* self.args
    sink,             \* write_str calls the sink still accepts (NoLimit: all)
    out,              \* what the sink holds
    state,            \* State::{Piece, Arg, ArgPos, ArgWidth, ArgPrecision}
    pos_range,        \* (start, end) in tmpl of the position text
    width_range,      \* (start, end) in tmpl of the width text
    precision_range,  \* (start, end) in tmpl of the precision text
    next_arg,         \* items `args.into_iter()` has yielded so far
    fmt,              \* the remaining template (a suffix of tmpl)
    piece_end,        \* bytes of fmt scanned as the pending literal piece
    i,                \* offset of fmt in tmpl
    result,           \* "Running", or how fmt ended: "Ok", "Err", "Panic"
    calls,            \* renders of the template started so far
    earlier           \* the renders that came before: arguments and outcome

vars == <<tmpl, ty, args, sink, out, state, pos_range, width_range,
          precision_range, next_arg, fmt, piece_end, i, result, calls,
          earlier>>

-----------------------------------------------------------------------------
(* Bounds of the model.                                                    *)

MaxLenBrace == 6      \* longest template over BraceChars
MaxLenPos == 5        \* longest template over PosChars
MaxLenWidth == 5      \* longest template over WidthChars
MaxLenSink == 4       \* longest template over SinkChars
MaxArgs == 3          \* longest argument list
MaxSink == 3          \* largest number of writes a failing sink accepts
MaxLenField == 4      \* longest text between the braces of a placeholder
MaxLenCall == 2       \* longest template over BraceChars rendered again
MaxCalls == 3         \* renders of one template
MaxLenLive == 3       \* longest template over LiveChars
MaxCharsUtf8 == 4     \* most characters of a template over Utf8Chars

NoLimit == -1         \* a sink that accepts every write

-----------------------------------------------------------------------------
(* Text helpers.                                                           *)

Min(a, b) == IF a <= b THEN a ELSE b

DigitChars == <<"0", "1", "2", "3", "4", "5", "6", "7", "8", "9">>

IsDigit(c) == \E d \in 1..10 : DigitChars[d] = c

DigitVal(c) == (CHOOSE d \in 1..10 : DigitChars[d] = c) - 1

\* A byte that is not an ASCII character is written as its two hexadecimal
\* digits, and so is the vertical tab (byte 0x0B, "0B"), for which a string
\* has no escape; the bytes 0x80..0xBF continue a multi-byte character.
HexDigits == {"0", "1", "2", "3", "4", "5", "6", "7", "8", "9",
              "A", "B", "C", "D", "E", "F"}

ContinuationBytes == {h \o l : h \in {"8", "9", "A", "B"}, l \in HexDigits}

\* char::is_whitespace on a one-byte character: U+0009 to U+000D (tab,
\* line feed, vertical tab, form feed, carriage return) and the space.
IsWhitespace(c) == c \in {" ", "\t", "\n", "0B", "\f", "\r"}

\* The characters with char::is_whitespace (the Unicode property
\* White_Space), as their UTF-8 bytes: the one-byte ones, U+0085, U+00A0,
\* U+1680, U+2000 to U+200A, U+2028, U+2029, U+202F, U+205F and U+3000.
WhitespaceChars ==
    {<<c>> : c \in {" ", "\t", "\n", "0B", "\f", "\r"}}
        \cup {<<"C2", "85">>, <<"C2", "A0">>, <<"E1", "9A", "80">>,
              <<"E2", "81", "9F">>, <<"E3", "80", "80">>}
        \cup {<<"E2", "80", b>> :
                  b \in {"80", "81", "82", "83", "84", "85", "86", "87",
                         "88", "89", "8A", "A8", "A9", "AF"}}

\* &s[a..b] for a sequence s and 0-based byte offsets a <= b
Slice(s, a, b) == SubSeq(s, a + 1, b)

\* str::is_char_boundary: the start, the end, or the first byte of a
\* character
IsCharBoundary(s, k) ==
    \/ k = 0
    \/ k = Len(s)
    \/ 0 < k /\ k < Len(s) /\ s[k + 1] \notin ContinuationBytes

\* The range a..b can be sliced out of the str s; `&s[a..b]` panics if not
IsSliceable(s, a, b) ==
    a <= b /\ IsCharBoundary(s, a) /\ IsCharBoundary(s, b)

\* <u64 as Display>::fmt without flags: the decimal digits of n
RECURSIVE ToDigits(_)
ToDigits(n) ==
    IF n < 10 THEN <<DigitChars[n + 1]>>
    ELSE ToDigits(n \div 10) \o <<DigitChars[(n % 10) + 1]>>

\* str::trim: the whitespace characters at both ends are dropped, each
\* with all its bytes
StartsWith(s, w) == Len(w) <= Len(s) /\ SubSeq(s, 1, Len(w)) = w

EndsWith(s, w) ==
    Len(w) <= Len(s) /\ SubSeq(s, Len(s) - Len(w) + 1, Len(s)) = w

RECURSIVE TrimStart(_)
TrimStart(s) ==
    IF s = <<>> THEN s
    ELSE IF IsWhitespace(Head(s)) THEN TrimStart(Tail(s))
    ELSE IF Head(s) \in {"C2", "E1", "E2", "E3"}
                /\ \E w \in WhitespaceChars : StartsWith(s, w)
    THEN LET w == CHOOSE w \in WhitespaceChars : StartsWith(s, w)
         IN  TrimStart(SubSeq(s, Len(w) + 1, Len(s)))
    ELSE s

RECURSIVE TrimEnd(_)
TrimEnd(s) ==
    IF s = <<>> THEN s
    ELSE IF IsWhitespace(s[Len(s)]) THEN TrimEnd(SubSeq(s, 1, Len(s) - 1))
    ELSE IF s[Len(s)] \in ContinuationBytes
                /\ \E w \in WhitespaceChars : EndsWith(s, w)
    THEN LET w == CHOOSE w \in WhitespaceChars : EndsWith(s, w)
         IN  TrimEnd(SubSeq(s, 1, Len(s) - Len(w)))
    ELSE s

trim(s) == TrimEnd(TrimStart(s))

RECURSIVE DigitsValue(_)
DigitsValue(s) ==
    IF s = <<>> THEN 0
    ELSE 10 * DigitsValue(SubSeq(s, 1, Len(s) - 1)) + DigitVal(s[Len(s)])

\* The digits of usize::MAX, 2^64 - 1 (usize has 64 bits)
UsizeMaxDigits ==
    <<"1", "8", "4", "4", "6", "7", "4", "4", "0", "7", "3", "7", "0", "9",
      "5", "5", "1", "6", "1", "5">>

RECURSIVE StripZeros(_)
StripZeros(s) ==
    IF s # <<>> /\ Head(s) = "0" THEN StripZeros(Tail(s)) ELSE s

\* The number with the digits s is above usize::MAX: it has more digits
\* behind its leading zeros, or as many and a larger one first
AboveUsizeMax(s) ==
    LET d == StripZeros(s)
        m == UsizeMaxDigits
    IN  \/ Len(d) > Len(m)
        \/ /\ Len(d) = Len(m)
           /\ \E k \in 1..Len(m) :
                  /\ DigitVal(d[k]) > DigitVal(m[k])
                  /\ \A j \in 1..(k - 1) : d[j] = m[j]

\* str::parse::<usize>: an optional `+`, then one or more decimal digits
\* of a number that is at most usize::MAX.  -1 stands for Err.
ParseUsize(s) ==
    LET body == IF s # <<>> /\ Head(s) = "+" THEN Tail(s) ELSE s
    IN  IF body # <<>> /\ \A k \in 1..Len(body) : IsDigit(body[k])
        THEN IF AboveUsizeMax(body) THEN -1 ELSE DigitsValue(body)
        ELSE -1

-----------------------------------------------------------------------------
(* The helpers nested in `fmt`.                                            *)

\* as_brace: "Left", "Right", or "None" for a byte that is no brace
as_brace(c) ==
    IF c = "{" THEN "Left" ELSE IF c = "}" THEN "Right" ELSE "None"

\* parse_pos with unparsable text taken for no position.
parse_posErrorIsNone(s) ==
    LET t == trim(s)
    IN  IF t # <<>> /\ ParseUsize(t) >= 0
        THEN [kind |-> "Some", pos |-> ParseUsize(t)]
        ELSE [kind |-> "None", pos |-> 0]

\* parse_pos without the trim: whitespace makes the text unparsable.
parse_posNoTrim(s) ==
    IF s = <<>> THEN [kind |-> "None", pos |-> 0]
    ELSE IF ParseUsize(s) >= 0 THEN [kind |-> "Some", pos |-> ParseUsize(s)]
    ELSE [kind |-> "Error", pos |-> 0]

\* parse_pos: Pos::None, Pos::Some(pos) or Pos::Error
parse_pos(s) ==
    LET t == trim(s)
    IN  IF t = <<>> THEN [kind |-> "None", pos |-> 0]
        ELSE IF ParseUsize(t) >= 0 THEN [kind |-> "Some", pos |-> ParseUsize(t)]
        ELSE [kind |-> "Error", pos |-> 0]

\* parse_width: Width::Zero(w) or Width::Space(w)
parse_width(s) ==
    IF ParseUsize(s) >= 0
    THEN IF Head(s) = "0" THEN [kind |-> "Zero", w |-> ParseUsize(s)]
         ELSE [kind |-> "Space", w |-> ParseUsize(s)]
    ELSE [kind |-> "Space", w |-> 0]

\* buf[precision_range.0..precision_range.1].parse::<usize>().ok():
\* the precision, or -1 for None
parse_precision(s) == ParseUsize(s)

\* self.args.get(k) for a 0-based k: <<arg>>, or <<>> for None
ArgsGet(a, k) == IF k < Len(a) THEN <<a[k + 1]>> ELSE <<>>

\* Lookup with an iterator that is never advanced: every sequential
\* reference reads the first argument.
LookupNoAdvance(a, n, pos) ==
    IF pos.kind = "Some" THEN [arg |-> ArgsGet(a, pos.pos), next_arg |-> n]
    ELSE IF pos.kind = "None" THEN [arg |-> ArgsGet(a, n), next_arg |-> n]
    ELSE [arg |-> <<>>, next_arg |-> n]

\* Lookup with an iterator that starts over when it is exhausted.
LookupStartsOver(a, n, pos) ==
    IF pos.kind = "Some" THEN [arg |-> ArgsGet(a, pos.pos), next_arg |-> n]
    ELSE IF pos.kind = "None"
    THEN [arg |-> ArgsGet(a, n), next_arg |-> IF n < Len(a) THEN n + 1 ELSE 0]
    ELSE [arg |-> <<>>, next_arg |-> n]

\* The match on _pos: the argument the placeholder addresses (<<arg>>, or
\* <<>> for None) and the iterator position afterwards.  Only Pos::None
\* calls args.next(), which yields an item while one is left.
Lookup(a, n, pos) ==
    IF pos.kind = "Some" THEN [arg |-> ArgsGet(a, pos.pos), next_arg |-> n]
    ELSE IF pos.kind = "None"
    THEN [arg |-> ArgsGet(a, n), next_arg |-> Min(n + 1, Len(a))]
    ELSE [arg |-> <<>>, next_arg |-> n]

\* The write! of an integer argument, as the write_str/write_char calls
\* that reach the sink: "{}" for (Space(0), None); otherwise the width is
\* a minimum length, filled on the left with `0` (Width::Zero, the `0`
\* flag) or with spaces (Width::Space: numbers are right-aligned), one
\* write_char per fill character.  Integers ignore the precision.
DisplayWrites(arg, width, precision) ==
    LET digits == ToDigits(arg)
        fill   == IF width.kind = "Zero" THEN "0" ELSE " "
        n      == IF width.w > Len(digits) THEN width.w - Len(digits) ELSE 0
    IN  [k \in 1..n |-> <<fill>>] \o <<digits>>

\* The writes ws as one text
RECURSIVE Concat(_)
Concat(ws) ==
    IF ws = <<>> THEN <<>>
    ELSE IF Len(ws) = 1 THEN ws[1]
    ELSE Concat(SubSeq(ws, 1, Len(ws) \div 2))
             \o Concat(SubSeq(ws, Len(ws) \div 2 + 1, Len(ws)))

\* A value of type f64 is [int |-> n, frac |-> f]: the integer n followed
\* by the decimal digits f, which do not end in `0`.  It is the exact
\* value of a normal f64 that is not negative: a binary fraction, whose
\* decimal text ends.  The arithmetic on it is done on digit texts.
Zeros(n) == [k \in 1..n |-> "0"]

\* The digit at place k of the fraction 0.d, 0 behind its end
DigitAt(d, k) == IF 1 <= k /\ k <= Len(d) THEN DigitVal(d[k]) ELSE 0

\* 0.a < 0.b, 0.a = 0.b
FracLess(a, b) ==
    \E k \in 1..(Len(a) + Len(b)) :
        /\ DigitAt(a, k) < DigitAt(b, k)
        /\ \A j \in 1..(k - 1) : DigitAt(a, j) = DigitAt(b, j)

FracEq(a, b) ==
    \A k \in 1..(Len(a) + Len(b)) : DigitAt(a, k) = DigitAt(b, k)

\* The digits of 0.d / 2, and of the fraction part of 2 * 0.d
Halve(d) ==
    SubSeq([k \in 1..(Len(d) + 1) |->
               DigitChars[((IF DigitAt(d, k - 1) % 2 = 1 THEN 10 ELSE 0)
                               + DigitAt(d, k)) \div 2 + 1]],
           1, Len(d) + 1)

Double(d) ==
    SubSeq([k \in 1..Len(d) |->
               DigitChars[((2 * DigitVal(d[k])
                                + (IF DigitAt(d, k + 1) >= 5 THEN 1 ELSE 0))
                              % 10) + 1]],
           1, Len(d))

\* The digits d as a number, plus 1
RECURSIVE Increment(_)
Increment(d) ==
    IF d = <<>> THEN <<"1">>
    ELSE IF d[Len(d)] = "9"
    THEN Increment(SubSeq(d, 1, Len(d) - 1)) \o <<"0">>
    ELSE SubSeq(d, 1, Len(d) - 1) \o <<DigitChars[DigitVal(d[Len(d)]) + 2]>>

\* The digits of 2^-k, k >= 1: 0.5 halved until it has k digits
RECURSIVE HalvedTo(_, _)
HalvedTo(d, k) == IF Len(d) >= k THEN d ELSE HalvedTo(Halve(d), k)

HalfPow(k) == HalvedTo(<<"5">>, k)

\* The binary exponent of a value v > 0: 2^e <= v < 2^(e+1)
RECURSIVE Log2(_)
Log2(n) == IF n < 2 THEN 0 ELSE 1 + Log2(n \div 2)

RECURSIVE FracExp(_)
FracExp(d) == IF DigitVal(d[1]) >= 5 THEN -1 ELSE FracExp(Double(d)) - 1

BinExp(v) == IF v.int > 0 THEN Log2(v.int) ELSE FracExp(v.frac)

\* The value is a power of two: its mantissa is the least one, and the
\* f64 below it is nearer than the one above
RECURSIVE FracIsPow2(_)
FracIsPow2(d) ==
    IF DigitVal(d[1]) >= 5
    THEN d[1] = "5" /\ \A k \in 2..Len(d) : d[k] = "0"
    ELSE FracIsPow2(Double(d))

IsPowerOfTwo(v) ==
    IF v.int > 0 THEN v.frac = <<>> /\ v.int = 2 ^ Log2(v.int)
    ELSE FracIsPow2(v.frac)

IsZero(v) == v.int = 0 /\ v.frac = <<>>

\* The distance of v to the number with f of its decimal places, and to
\* the next number with f places above it, as digits of a fraction: the
\* places after f, and their complement.
Below(frac, f) == Zeros(f) \o SubSeq(frac, f + 1, Len(frac))

Above(frac, f) ==
    SubSeq([k \in 1..Len(frac) |->
               IF k <= f THEN "0"
               ELSE DigitChars[(IF k < Len(frac) THEN 9 ELSE 10)
                                   - DigitVal(frac[k]) + 1]],
           1, Len(frac))

\* The distance x is within the gap to a midpoint: less than it, or equal
\* to it if the midpoints read back as v too (incl)
Within(x, gap, incl) == FracLess(x, gap) \/ (incl /\ FracEq(x, gap))

\* The number below v with f places, and the one above, read back as v
DownOk(frac, f, minus, incl) ==
    f >= Len(frac) \/ Within(Below(frac, f), minus, incl)

UpOk(frac, f, plus, incl) ==
    f < Len(frac) /\ Within(Above(frac, f), plus, incl)

\* The fewest decimal places with which a number reads back as v
ShortestPlaces(frac, plus, minus, incl) ==
    CHOOSE f \in 0..Len(frac) :
        /\ DownOk(frac, f, minus, incl) \/ UpOk(frac, f, plus, incl)
        /\ \A g \in 0..(f - 1) :
               ~(DownOk(frac, g, minus, incl) \/ UpOk(frac, g, plus, incl))

\* Of the two numbers with f places around v the upper one is written: it
\* reads back as v and the lower one does not, or is not nearer
RoundsUp(frac, f, plus, minus, incl) ==
    /\ UpOk(frac, f, plus, incl)
    /\ \/ ~DownOk(frac, f, minus, incl)
       \/ ~FracLess(Below(frac, f), Above(frac, f))

\* The digits d, or the number after them
Rounded(d, up, f) == [digits |-> IF up THEN Increment(d) ELSE d, places |-> f]

ShortestAt(v, f, plus, minus, incl) ==
    Rounded(ToDigits(v.int) \o SubSeq(v.frac, 1, f),
            RoundsUp(v.frac, f, plus, minus, incl), f)

ShortestWithin(v, plus, minus, incl) ==
    ShortestAt(v, ShortestPlaces(v.frac, plus, minus, incl),
               plus, minus, incl)

\* The same for a value of 2^53 or more: an integer n whose neighbours are
\* integers too, so that digits before the point can be dropped, k of
\* them.  The gaps are counted in halves (plus2, minus2), as is the
\* distance of n to the multiple of 10^k below it and to the one above.
WithinInt(x2, gap2, incl) == x2 < gap2 \/ (incl /\ x2 = gap2)

DownOkInt(n, k, minus2, incl) ==
    WithinInt(2 * (n % (10 ^ k)), minus2, incl)

UpOkInt(n, k, plus2, incl) ==
    WithinInt(2 * ((10 ^ k) - (n % (10 ^ k))), plus2, incl)

\* The most digits before the point that can be dropped
DroppedDigits(n, plus2, minus2, incl) ==
    CHOOSE k \in 0..Len(ToDigits(n)) :
        /\ DownOkInt(n, k, minus2, incl) \/ UpOkInt(n, k, plus2, incl)
        /\ \A g \in (k + 1)..Len(ToDigits(n)) :
               ~(DownOkInt(n, g, minus2, incl) \/ UpOkInt(n, g, plus2, incl))

RoundsUpInt(n, k, plus2, minus2, incl) ==
    /\ UpOkInt(n, k, plus2, incl)
    /\ \/ ~DownOkInt(n, k, minus2, incl)
       \/ 2 * (n % (10 ^ k)) >= 10 ^ k

ShortestIntAt(n, k, plus2, minus2, incl) ==
    Rounded(SubSeq(ToDigits(n), 1, Len(ToDigits(n)) - k),
            RoundsUpInt(n, k, plus2, minus2, incl), 0 - k)

ShortestInt(n, plus2, minus2, incl) ==
    ShortestIntAt(n, DroppedDigits(n, plus2, minus2, incl),
                  plus2, minus2, incl)

\* flt2dec::strategy::{grisu, dragon}::format_shortest: the fewest digits
\* that read back as v, i.e. that name a number between the midpoints to
\* the neighbours of v (the midpoints too when the mantissa of v is even),
\* and of such numbers the one nearest to v.  With the binary exponent e
\* of v the midpoint above is 2^(e-53) away, the one below as far, or
\* half as far if v is a power of two.  The result is the digits of the
\* number without its point, and how many of them follow the point (for
\* a value of 2^53 or more, less than none: the digits that were dropped
\* before the point).
ShortestFor(v, e) ==
    IF e >= 53
    THEN ShortestInt(v.int, 2 ^ (e - 52),
                     IF IsPowerOfTwo(v) THEN 2 ^ (e - 53) ELSE 2 ^ (e - 52),
                     (v.int \div (2 ^ (e - 52))) % 2 = 0)
    ELSE ShortestWithin(v, HalfPow(53 - e),
                        IF IsPowerOfTwo(v) THEN HalfPow(54 - e)
                        ELSE HalfPow(53 - e),
                        Len(v.frac) < 52 - e)

ShortestDigits(v) == ShortestFor(v, BinExp(v))

\* flt2dec::strategy::{grisu, dragon}::format_exact: v with p digits after
\* the point, rounded to the nearest such number and to the even one of two
\* that are equally near
FixedRounded(kept, rest, p) ==
    Rounded(kept,
            /\ rest # <<>>
            /\ \/ DigitVal(rest[1]) > 5
               \/ DigitVal(rest[1]) = 5 /\ Len(rest) > 1
               \/ DigitVal(rest[1]) = 5
                      /\ DigitVal(kept[Len(kept)]) % 2 = 1,
            p)

FixedDigits(v, p) ==
    FixedRounded(ToDigits(v.int) \o SubSeq(v.frac, 1, Min(p, Len(v.frac)))
                     \o Zeros(IF p > Len(v.frac) THEN p - Len(v.frac)
                              ELSE 0),
                 SubSeq(v.frac, p + 1, Len(v.frac)), p)

\* flt2dec::estimate_max_buf_len for the exponent of the decoded v: the
\* digits format_exact has room for
BufLenFor(exp) ==
    21 + (IF exp < 0 THEN 12 * (0 - exp) ELSE 5 * exp) \div 16

MaxBufLen(v) ==
    BufLenFor(BinExp(v) - 52 - (IF IsPowerOfTwo(v) THEN 2 ELSE 1))

\* Formatter::write_formatted_parts, Part::Zero(n): n zeros, 64 to a
\* write_str
ZeroWrites(n) ==
    [k \in 1..((n + 63) \div 64) |->
        Zeros(IF 64 * k <= n THEN 64 ELSE n - 64 * (k - 1))]

\* flt2dec::digits_to_dec_str: the parts of the number 0.buf * 10^exp with
\* at least frac_digits digits after the point, each part as the
\* write_str calls it makes
digits_to_dec_str(buf, exp, frac_digits) ==
    IF exp <= 0
    THEN <<<<"0", ".">>>> \o ZeroWrites(0 - exp) \o <<buf>>
             \o (IF frac_digits > Len(buf)
                        /\ frac_digits - Len(buf) > 0 - exp
                 THEN ZeroWrites((frac_digits - Len(buf)) - (0 - exp))
                 ELSE <<>>)
    ELSE IF exp < Len(buf)
    THEN <<SubSeq(buf, 1, exp), <<".">>, SubSeq(buf, exp + 1, Len(buf))>>
             \o (IF frac_digits > Len(buf) - exp
                 THEN ZeroWrites(frac_digits - (Len(buf) - exp))
                 ELSE <<>>)
    ELSE <<buf>> \o ZeroWrites(exp - Len(buf))
             \o (IF frac_digits > 0
                 THEN <<<<".">>>> \o ZeroWrites(frac_digits)
                 ELSE <<>>)

\* The digits d without the zeros at their end
RECURSIVE StripEnd(_)
StripEnd(d) ==
    IF d # <<>> /\ d[Len(d)] = "0" THEN StripEnd(SubSeq(d, 1, Len(d) - 1))
    ELSE d

\* The decimal exponent of the digits r with their leading zeros dropped
\* (sig): the number is 0.sig * 10^exp
DecExp(r, sig) == (Len(r.digits) - r.places) - (Len(r.digits) - Len(sig))

ShortestParts(r, sig) == digits_to_dec_str(StripEnd(sig), DecExp(r, sig), 0)

ShortestStr(r) == ShortestParts(r, StripZeros(r.digits))

\* flt2dec::to_shortest_str with frac_digits 0: the writes of the shortest
\* text of v
FloatPlainWrites(v) ==
    IF IsZero(v) THEN <<<<"0">>>> ELSE ShortestStr(ShortestDigits(v))

ExactParts(r, sig, max, p) ==
    IF sig = <<>>
    THEN IF p > 0 THEN <<<<"0", ".">>>> \o ZeroWrites(p) ELSE <<<<"0">>>>
    ELSE digits_to_dec_str(SubSeq(sig, 1, Min(Len(sig), max)),
                           DecExp(r, sig), p)

ExactStr(r, max, p) == ExactParts(r, StripZeros(r.digits), max, p)

\* flt2dec::to_exact_fixed_str: the writes of v with p digits after the
\* point.  A value that rounds to zero is written as zero.
FloatFixedWrites(v, p) ==
    ExactStr(IF IsZero(v) THEN [digits |-> <<>>, places |-> p]
             ELSE FixedDigits(v, p),
             MaxBufLen(v), p)

\* <f64 as Display>::fmt without precision: the shortest text that reads
\* back as the value.
FloatPlain(v) == Concat(FloatPlainWrites(v))

\* <f64 as Display>::fmt with precision p: the value with exactly p digits
\* after the point.
FloatFixed(v, p) == Concat(FloatFixedWrites(v, p))

\* The write! of an f64 argument, Formatter::pad_formatted_parts.  A width
\* of 0 is no width: the parts of the text are written alone, whatever the
\* flag ("{}", and "{:01$}" with the width 0).  Otherwise with the `0`
\* flag the sign is written first, empty as it is; then one write_char
\* per fill character up to the width; then the parts of the text.
PadParts(parts, len, width) ==
    IF width.w = 0 THEN parts
    ELSE (IF width.kind = "Zero" THEN <<<<>>>> ELSE <<>>)
             \o [k \in 1..(IF width.w > len THEN width.w - len ELSE 0) |->
                    <<IF width.kind = "Zero" THEN "0" ELSE " ">>]
             \o parts

PaddedParts(parts, width) == PadParts(parts, Len(Concat(parts)), width)

DisplayWritesFloat(arg, width, precision) ==
    PaddedParts(IF precision < 0 THEN FloatPlainWrites(arg)
                ELSE FloatFixedWrites(arg, precision),
                width)

\* The largest width or precision a write! takes at run time (u16::MAX)
FormatArgMax == 65535

\* The write! of an arm of the match on (_width, _precision) panics
\* ("Formatting argument out of range") before it writes anything: the
\* width `1$` or the precision `2$` that it is handed is above u16::MAX.
\* `write!(f, "{}", arg)`, the arm of (Space(0), None), is handed neither.
DisplayPanics(width, precision) ==
    width.w > FormatArgMax \/ precision > FormatArgMax

\* The match on (_width, _precision): <T as Display>::fmt under the width
\* and the precision that the write! of the arm hands over.
Display(t, arg, width, precision) ==
    IF t = "f64" THEN DisplayWritesFloat(arg, width, precision)
    ELSE DisplayWrites(arg, width, precision)

-----------------------------------------------------------------------------
(* The state of a render as one record, and the sink.                      *)

Cur ==
    [tmpl |-> tmpl, ty |-> ty, args |-> args, sink |-> sink, out |-> out,
     state |-> state, pos_range |-> pos_range, width_range |-> width_range,
     precision_range |-> precision_range, next_arg |-> next_arg,
     fmt |-> fmt, piece_end |-> piece_end, i |-> i, result |-> result]

\* The locals of `fmt` as it starts (lines 157 to 166), for a template, an
\* argument list of integers and a sink.
Start(t, a, k) ==
    [tmpl |-> t, ty |-> "i32", args |-> a, sink |-> k, out |-> <<>>,
     state |-> "Piece", pos_range |-> <<0, 0>>, width_range |-> <<0, 0>>,
     precision_range |-> <<0, 0>>, next_arg |-> 0,
     fmt |-> t, piece_end |-> 0, i |-> 0, result |-> "Running"]

\* The same for an argument list of type y
StartAs(y, t, a, k) == [Start(t, a, k) EXCEPT !.ty = y]

\* Write with the result of the sink ignored: a refused write is lost and
\* the render goes on.
WriteIgnoresError(s, ws) ==
    LET n == IF s.sink = NoLimit THEN Len(ws) ELSE Min(Len(ws), s.sink)
    IN  [s EXCEPT !.out = @ \o Concat(SubSeq(ws, 1, n)),
                  !.sink = IF @ = NoLimit THEN @ ELSE @ - n]

\* The sink is handed the writes ws in order.  It takes them while it
\* accepts writes; the first write it refuses makes the `?` return Err,
\* and nothing is written after it.  (The Formatter is that of "{}", as
\* `format` and `dyn_write!` make it: <str as Display>::fmt pads nothing.)
Write(s, ws) ==
    LET n == IF s.sink = NoLimit THEN Len(ws) ELSE Min(Len(ws), s.sink)
    IN  [s EXCEPT !.out = @ \o Concat(SubSeq(ws, 1, n)),
                  !.sink = IF @ = NoLimit THEN @ ELSE @ - n,
                  !.result = IF n < Len(ws) THEN "Err" ELSE @]

-----------------------------------------------------------------------------
(* The arms of the loop, each as a function from the state before an       *)
(* iteration to the state after it.                                        *)

\* PieceNone without the final write: the loop breaks and the pending
\* piece is lost.
PieceNoneNoFlush(s) ==
    IF s.piece_end > Len(s.fmt) THEN [s EXCEPT !.result = "Panic"]
    ELSE [s EXCEPT !.result = "Ok"]

\* State::Piece, `None`: the scan reached the end of fmt.  The pending
\* piece is written and the loop breaks.  (fmt[piece_end..] panics when
\* piece_end is beyond the end of fmt.)
PieceNone(s) ==
    IF s.piece_end > Len(s.fmt) THEN [s EXCEPT !.result = "Panic"]
    ELSE LET w == Write(s, <<s.fmt>>)
         IN  IF w.result = "Err" THEN w ELSE [w EXCEPT !.result = "Ok"]

\* PieceBrace that does not keep the byte after `}`: it is scanned as any
\* other byte.
PieceBraceRescans(s) ==
    LET b    == as_brace(s.fmt[s.piece_end + 1])
        w    == Write(s, <<Slice(s.fmt, 0, s.piece_end)>>)
        step == s.piece_end + 1
        rest == Slice(s.fmt, step, Len(s.fmt))
        ni   == s.i + step
    IN  IF w.result = "Err" THEN w
        ELSE IF rest = <<>>
        THEN [w EXCEPT !.i = ni, !.fmt = rest, !.result = "Ok"]
        ELSE IF b = "Left"
        THEN [w EXCEPT !.i = ni, !.fmt = rest, !.piece_end = 0,
                       !.state = "ArgPos", !.pos_range = <<ni, ni>>,
                       !.width_range = <<0, 0>>,
                       !.precision_range = <<0, 0>>]
        ELSE [w EXCEPT !.i = ni, !.fmt = rest, !.piece_end = 0,
                       !.state = "Piece"]

\* PieceBrace that keeps `}` itself as the first byte of the next piece.
PieceBraceKeepsRight(s) ==
    LET b    == as_brace(s.fmt[s.piece_end + 1])
        w    == Write(s, <<Slice(s.fmt, 0, s.piece_end)>>)
        step == s.piece_end + 1
        rest == Slice(s.fmt, step, Len(s.fmt))
        ni   == s.i + step
    IN  IF w.result = "Err" THEN w
        ELSE IF rest = <<>>
        THEN [w EXCEPT !.i = ni, !.fmt = rest, !.result = "Ok"]
        ELSE IF b = "Left"
        THEN [w EXCEPT !.i = ni, !.fmt = rest, !.piece_end = 0,
                       !.state = "ArgPos", !.pos_range = <<ni, ni>>,
                       !.width_range = <<0, 0>>,
                       !.precision_range = <<0, 0>>]
        ELSE [w EXCEPT !.i = s.i + s.piece_end,
                       !.fmt = Slice(s.fmt, s.piece_end, Len(s.fmt)),
                       !.piece_end = 1, !.state = "Piece"]

\* PieceBrace without the break on an empty rest.
PieceBraceNoEndCheck(s) ==
    LET b    == as_brace(s.fmt[s.piece_end + 1])
        w    == Write(s, <<Slice(s.fmt, 0, s.piece_end)>>)
        step == s.piece_end + 1
        rest == Slice(s.fmt, step, Len(s.fmt))
        ni   == s.i + step
    IN  IF w.result = "Err" THEN w
        ELSE IF b = "Left"
        THEN [w EXCEPT !.i = ni, !.fmt = rest, !.piece_end = 0,
                       !.state = "ArgPos", !.pos_range = <<ni, ni>>,
                       !.width_range = <<0, 0>>,
                       !.precision_range = <<0, 0>>]
        ELSE [w EXCEPT !.i = ni, !.fmt = rest, !.piece_end = 0,
                       !.state = "Piece"]

\* State::Piece, a brace at fmt[piece_end]: the piece before it is
\* written and the brace is consumed.  If nothing follows, the loop
\* breaks; `{` opens a placeholder, `}` keeps the next byte as the first
\* byte of the next piece.
PieceBrace(s) ==
    LET b    == as_brace(s.fmt[s.piece_end + 1])
        w    == Write(s, <<Slice(s.fmt, 0, s.piece_end)>>)
        step == s.piece_end + 1
        rest == Slice(s.fmt, step, Len(s.fmt))
        ni   == s.i + step
    IN  IF ~IsCharBoundary(s.fmt, s.piece_end)
        THEN [s EXCEPT !.result = "Panic"]
        ELSE IF w.result = "Err" THEN w
        ELSE IF ~IsCharBoundary(s.fmt, step)
        THEN [w EXCEPT !.i = ni, !.result = "Panic"]
        ELSE IF rest = <<>>
        THEN [w EXCEPT !.i = ni, !.fmt = rest, !.result = "Ok"]
        ELSE IF b = "Left"
        THEN [w EXCEPT !.i = ni, !.fmt = rest, !.piece_end = 0,
                       !.state = "ArgPos", !.pos_range = <<ni, ni>>,
                       !.width_range = <<0, 0>>,
                       !.precision_range = <<0, 0>>]
        ELSE [w EXCEPT !.i = ni, !.fmt = rest, !.piece_end = 1,
                       !.state = "Piece"]

\* State::Piece, any other byte: it joins the pending piece.
PieceOther(s) == [s EXCEPT !.piece_end = @ + 1]

\* Arg with a missing argument treated as an error instead of as empty
\* text.
ArgMissingIsError(s) ==
    LET _pos       == parse_pos(Slice(s.tmpl, s.pos_range[1], s.pos_range[2]))
        _width     == parse_width(
                          Slice(s.tmpl, s.width_range[1], s.width_range[2]))
        _precision == parse_precision(
                          Slice(s.tmpl, s.precision_range[1],
                                s.precision_range[2]))
        found      == Lookup(s.args, s.next_arg, _pos)
        t          == [s EXCEPT !.next_arg = found.next_arg]
        w          == IF found.arg = <<>> THEN [t EXCEPT !.result = "Err"]
                      ELSE IF DisplayPanics(_width, _precision)
                      THEN [t EXCEPT !.result = "Panic"]
                      ELSE Write(t, Display(s.ty, found.arg[1], _width,
                                            _precision))
    IN  IF w.result # "Running" THEN w ELSE [w EXCEPT !.state = "Piece"]

\* Arg without the assignment of State::Piece at its end: the loop stays
\* in State::Arg.
ArgKeepsState(s) ==
    LET _pos       == parse_pos(Slice(s.tmpl, s.pos_range[1], s.pos_range[2]))
        _width     == parse_width(
                          Slice(s.tmpl, s.width_range[1], s.width_range[2]))
        _precision == parse_precision(
                          Slice(s.tmpl, s.precision_range[1],
                                s.precision_range[2]))
        found      == Lookup(s.args, s.next_arg, _pos)
        t          == [s EXCEPT !.next_arg = found.next_arg]
        w          == IF found.arg = <<>> THEN t
                      ELSE IF DisplayPanics(_width, _precision)
                      THEN [t EXCEPT !.result = "Panic"]
                      ELSE Write(t, Display(s.ty, found.arg[1], _width,
                                            _precision))
    IN  w

\* State::Arg: the placeholder just closed is resolved and rendered.
Arg(s) ==
    LET _pos       == parse_pos(Slice(s.tmpl, s.pos_range[1], s.pos_range[2]))
        _width     == parse_width(
                          Slice(s.tmpl, s.width_range[1], s.width_range[2]))
        _precision == parse_precision(
                          Slice(s.tmpl, s.precision_range[1],
                                s.precision_range[2]))
        found      == Lookup(s.args, s.next_arg, _pos)
        t          == [s EXCEPT !.next_arg = found.next_arg]
        w          == IF found.arg = <<>> THEN t
                      ELSE IF DisplayPanics(_width, _precision)
                      THEN [t EXCEPT !.result = "Panic"]
                      ELSE Write(t, Display(s.ty, found.arg[1], _width,
                                            _precision))
    IN  IF \/ ~IsSliceable(s.tmpl, s.pos_range[1], s.pos_range[2])
           \/ ~IsSliceable(s.tmpl, s.width_range[1], s.width_range[2])
           \/ ~IsSliceable(s.tmpl, s.precision_range[1],
                           s.precision_range[2])
        THEN [s EXCEPT !.result = "Panic"]
        ELSE IF w.result # "Running" THEN w ELSE [w EXCEPT !.state = "Piece"]

\* Spec states, `fmt = &fmt[1..]` after `i += 1`: the first byte of fmt is
\* dropped; the slice panics if fmt does not go on with a whole character.
DropByte(s) ==
    IF IsCharBoundary(s.fmt, 1)
    THEN [s EXCEPT !.i = @ + 1, !.fmt = Tail(@)]
    ELSE [s EXCEPT !.i = @ + 1, !.result = "Panic"]

\* Spec states, `}`: the placeholder is closed.
SpecClose(s) ==
    LET t == DropByte(s)
    IN  IF t.result = "Panic" THEN t ELSE [t EXCEPT !.state = "Arg"]

\* SpecOpen that does not keep the brace as literal text: it is scanned
\* again and opens a placeholder.
SpecOpenRescans(s) == [s EXCEPT !.state = "Piece", !.piece_end = 0]

\* SpecOpen that consumes the brace with the placeholder it gives up.
SpecOpenDropsBrace(s) ==
    [s EXCEPT !.state = "Piece", !.piece_end = 0, !.fmt = Tail(@),
              !.i = @ + 1]

\* Spec states, `{`: the placeholder is given up; the brace stays in fmt
\* as the first byte of the next piece.
SpecOpen(s) == [s EXCEPT !.state = "Piece", !.piece_end = 1]

\* SpecColon that opens the width range before the colon is consumed: the
\* colon becomes the first byte of the width text.
SpecColonCapturesColon(s) ==
    [s EXCEPT !.i = @ + 1, !.fmt = Tail(@),
              !.width_range = <<s.i, s.i>>, !.state = "ArgWidth"]

\* State::ArgPos, `:`: the width text starts after it.
SpecColon(s) ==
    LET t == DropByte(s)
    IN  IF t.result = "Panic" THEN t
        ELSE [t EXCEPT !.width_range = <<t.i, t.i>>, !.state = "ArgWidth"]

\* State::ArgWidth, `.`: the precision text starts after it.
SpecDot(s) ==
    LET t == DropByte(s)
    IN  IF t.result = "Panic" THEN t
        ELSE [t EXCEPT !.precision_range = <<t.i, t.i>>,
                       !.state = "ArgPrecision"]

\* Spec states, any other byte: it joins the text of the current field.
SpecOther(s) ==
    LET t == IF s.state = "ArgPos"
             THEN [s EXCEPT !.pos_range[2] = @ + 1]
             ELSE IF s.state = "ArgWidth"
             THEN [s EXCEPT !.width_range[2] = @ + 1]
             ELSE [s EXCEPT !.precision_range[2] = @ + 1]
    IN  DropByte(t)

\* Spec states, `None => unreachable!()`: fmt ended inside a placeholder.
SpecNone(s) == [s EXCEPT !.result = "Panic"]

InSpec(s) == s.state \in {"ArgPos", "ArgWidth", "ArgPrecision"}

\* Which arm an iteration takes.
PieceAtEnd(s)   == s.state = "Piece" /\ s.piece_end >= Len(s.fmt)
PieceAtBrace(s) == /\ s.state = "Piece" /\ s.piece_end < Len(s.fmt)
                   /\ as_brace(s.fmt[s.piece_end + 1]) # "None"
PieceAtOther(s) == /\ s.state = "Piece" /\ s.piece_end < Len(s.fmt)
                   /\ as_brace(s.fmt[s.piece_end + 1]) = "None"
SpecAtClose(s)  == InSpec(s) /\ s.fmt # <<>> /\ Head(s.fmt) = "}"
SpecAtOpen(s)   == InSpec(s) /\ s.fmt # <<>> /\ Head(s.fmt) = "{"
SpecAtColon(s)  == s.state = "ArgPos" /\ s.fmt # <<>> /\ Head(s.fmt) = ":"
SpecAtDot(s)    == s.state = "ArgWidth" /\ s.fmt # <<>> /\ Head(s.fmt) = "."
SpecAtOther(s)  == /\ InSpec(s) /\ s.fmt # <<>>
                   /\ ~SpecAtClose(s) /\ ~SpecAtOpen(s)
                   /\ ~SpecAtColon(s) /\ ~SpecAtDot(s)
SpecAtNone(s)   == InSpec(s) /\ s.fmt = <<>>

\* One iteration of the loop: `match state`.
Step(s) ==
    IF PieceAtEnd(s) THEN PieceNone(s)
    ELSE IF PieceAtBrace(s) THEN PieceBrace(s)
    ELSE IF PieceAtOther(s) THEN PieceOther(s)
    ELSE IF s.state = "Arg" THEN Arg(s)
    ELSE IF SpecAtClose(s) THEN SpecClose(s)
    ELSE IF SpecAtOpen(s) THEN SpecOpen(s)
    ELSE IF SpecAtColon(s) THEN SpecColon(s)
    ELSE IF SpecAtDot(s) THEN SpecDot(s)
    ELSE IF SpecAtOther(s) THEN SpecOther(s)
    ELSE SpecNone(s)

\* The whole call: the loop run from s until it breaks, returns or panics.
RECURSIVE Run(_)
Run(s) == IF s.result # "Running" THEN s ELSE Run(Step(s))

\* <Arguments as Display>::fmt on a sink
Render(t, a, k) == Run(Start(t, a, k))

-----------------------------------------------------------------------------
(* The inputs of the model and the state machine.                          *)

BraceChars == {"{", "}", "a"}
PosChars   == {"{", "}", "1", "y"}
WidthChars == {"{", "}", ":", "0", "2"}
SinkChars  == {"{", "}", "a", ":", "2"}
FieldChars == {":", ".", " ", "0", "3"}
LiveChars  == {"{", "}", "a", ":", "."}

StringsOver(chars, n) == UNION {[1..k -> chars] : k \in 0..n}

\* The templates of the tests of src/src/lib.rs, and a template that ends
\* inside a placeholder
ExampleTemplates ==
    { <<"{", "}", "a", "{", "}", "b", "{", "}", "c">>,
      <<"{", "{", "}", "}", "{", "}">>,
      <<"{", "1", "}", "a", "{", "}", "b", "{", "}", "c">>,
      <<"{", "1", "}", "a", "{", " ", "}", "b", "{", "0", "}", "c">>,
      <<"{", "2", ":", "0", "4", "}", "a", "{", "1", "}", "b", "{", "0", "}",
        "c">>,
      <<"{", "1", " ", "}", "a", "{", ":", "4", "}", "b", "{", "0", "}", "c">>,
      <<"{", "{", ":", "0", "1", "}", "}", "{", ":", "0", "4", "}">>,
      <<"{", "2", ":", "0", "4", ".", "1", "}", "a", "{", "1", "}", "b",
        "{", "0", "}", "c">>,
      <<"{", "{", "}", "}", "x", "{", "{", "}", "{", "}", "}", "y", "{">>,
      <<"{", "{", "{", "}", "}", "}", "x", "{", "y", "}">>,
      <<"{", "{", "{", "}", "}", "}", "x", "{", "{", "}">>,
      <<"{", "1", ":", "2">> }

\* Templates at the limits of the helpers: a form feed before the
\* position, a width and a precision of u16::MAX + 1, a width of
\* usize::MAX + 1
LimitTemplates ==
    { <<"{", "\f", "1", "}", "a">>,
      <<"{", "0", ":", "6", "5", "5", "3", "6", "}">>,
      <<"{", "0", ":", ".", "6", "5", "5", "3", "6", "}">>,
      <<"{", ":", "1", "8", "4", "4", "6", "7", "4", "4", "0", "7", "3",
        "7", "0", "9", "5", "5", "1", "6", "1", "6", "}", "x">> }

\* A `{` in each of the spec states: after a position, after a width and
\* after the `.` of a precision
OpenTemplates ==
    { <<"{", "1", "{", "}">>,
      <<"{", ":", "2", "{", "}">>,
      <<"{", ":", ".", "{", "}">>,
      <<"a", "{", "0", ":", "2", ".", "1", "{", "}", "b">> }

Templates ==
    StringsOver(BraceChars, MaxLenBrace) \cup StringsOver(PosChars, MaxLenPos)
        \cup StringsOver(WidthChars, MaxLenWidth) \cup ExampleTemplates
        \cup LimitTemplates \cup OpenTemplates

\* Templates rendered to a sink that may fail
SinkTemplates == StringsOver(SinkChars, MaxLenSink) \cup ExampleTemplates

\* One placeholder with any text over FieldChars between its braces, the
\* templates of the tests, and the template of test_format_precision that
\* is rendered with f64 arguments
FieldTemplates ==
    {<<"{">> \o c \o <<"}">> : c \in StringsOver(FieldChars, MaxLenField)}
        \cup ExampleTemplates \cup LimitTemplates
        \cup { <<"{", " ", " ", "1", ":", ".", "3", "}", "a", "{", ":", "4",
                 ".", "3", "}", "b", "{", "0", ":", ".", "2", "}", "c">> }

\* Templates rendered to the end of the loop: every template over
\* LiveChars, and the templates of the tests that have no explicit index
LiveTemplates ==
    StringsOver(LiveChars, MaxLenLive)
        \cup {t \in ExampleTemplates :
                 \A k \in 2..Len(t) :
                     IsDigit(t[k]) => t[k - 1] \notin {"{", " "}}

\* Characters as their UTF-8 bytes: five ASCII characters and the
\* three-byte U+4E2D of test_format_pos
Utf8Chars ==
    {<<"{">>, <<"}">>, <<":">>, <<".">>, <<"1">>, <<"E4", "B8", "AD">>}

\* The strings of at most n characters of Utf8Chars: valid UTF-8 all
RECURSIVE Utf8Strings(_)
Utf8Strings(n) ==
    IF n = 0 THEN {<<>>}
    ELSE LET r == Utf8Strings(n - 1)
         IN  r \cup {c \o t : c \in Utf8Chars, t \in r}

\* The templates of the tests that hold multi-byte characters:
\* "{2}a" U+4E2D U+6587 U+5185 "{1}b{0}c" of test_format_pos and
\* "abcd{}" U+0430..U+0434 "{}{}" of tests::write_str
Utf8Examples ==
    { <<"{", "2", "}", "a", "E4", "B8", "AD", "E6", "96", "87",
        "E5", "86", "85", "{", "1", "}", "b", "{", "0", "}", "c">>,
      <<"a", "b", "c", "d", "{", "}", "D0", "B0", "D0", "B1", "D0", "B2",
        "D0", "B3", "D0", "B4", "{", "}", "{", "}">> }

\* Templates with multi-byte characters in literal text and in placeholders
Utf8Templates == Utf8Strings(MaxCharsUtf8) \cup Utf8Examples

\* Templates rendered more than once
CallTemplates == StringsOver(BraceChars, MaxLenCall) \cup ExampleTemplates

\* Argument lists: the first m of the values 1, 2, 3, ... and a list of
\* longer numbers
ArgLists == {[k \in 1..m |-> k] : m \in 0..MaxArgs} \cup {<<12, 345>>}

\* Argument lists of type f64: of the values 1.0 and 2.875, and the list
\* [1.0, 2.123456] of test_format_precision, whose second value is the f64
\* nearest to 2.123456
FloatLists ==
    { <<[int |-> 1, frac |-> <<>>]>>,
      <<[int |-> 1, frac |-> <<>>], [int |-> 2, frac |-> <<"8", "7", "5">>]>>,
      <<[int |-> 1, frac |-> <<>>],
        [int |-> 2,
         frac |-> <<"1", "2", "3", "4", "5", "6", "0", "0", "0", "0", "0", "0",
              "0", "0", "0", "0", "1", "0", "1", "7", "4", "9", "7", "1",
              "9", "7", "6", "0", "8", "4", "6", "3", "4", "6", "6", "1",
              "6", "7", "4", "4", "9", "9", "5", "1", "1", "7", "1", "8",
              "7", "5">>]>> }

\* The argument lists of a type
ListsOf(y) == IF y = "f64" THEN FloatLists ELSE ArgLists

\* The template, the arguments, the locals and the sink become those of n
Become(n) ==
    /\ tmpl' = n.tmpl
    /\ ty' = n.ty
    /\ args' = n.args
    /\ sink' = n.sink
    /\ out' = n.out
    /\ state' = n.state
    /\ pos_range' = n.pos_range
    /\ width_range' = n.width_range
    /\ precision_range' = n.precision_range
    /\ next_arg' = n.next_arg
    /\ fmt' = n.fmt
    /\ piece_end' = n.piece_end
    /\ i' = n.i
    /\ result' = n.result

\* One iteration of the loop: the arm is executed once, and n is the state
\* it leaves
Apply(n) == \E m \in {n} : Become(m) /\ UNCHANGED <<calls, earlier>>

\* The first render of a template starts
InitFrom(s) ==
    /\ tmpl = s.tmpl
    /\ ty = s.ty
    /\ args = s.args
    /\ sink = s.sink
    /\ out = s.out
    /\ state = s.state
    /\ pos_range = s.pos_range
    /\ width_range = s.width_range
    /\ precision_range = s.precision_range
    /\ next_arg = s.next_arg
    /\ fmt = s.fmt
    /\ piece_end = s.piece_end
    /\ i = s.i
    /\ result = s.result
    /\ calls = 1
    /\ earlier = <<>>

InitWith(templates, sinks) ==
    \E t \in templates, a \in ArgLists, k \in sinks :
        InitFrom(Start(t, a, k))

\* A sink that never fails, as the String behind `format`
Init == InitWith(Templates, {NoLimit})

\* Any sink: one that never fails, or one that refuses a write
InitSink == InitWith(SinkTemplates, {NoLimit} \cup 0..MaxSink)

\* Arguments of either type, rendered with `format`
InitFields ==
    \E t \in FieldTemplates, y \in {"i32", "f64"} :
        \E a \in ListsOf(y) : InitFrom(StartAs(y, t, a, NoLimit))

\* Any sink, and templates that reach every arm of the loop
InitLive == InitWith(LiveTemplates, {NoLimit} \cup 0..MaxSink)

\* Valid UTF-8 templates with multi-byte characters, and a sink that never
\* fails
InitUtf8 == InitWith(Utf8Templates, {NoLimit})

\* A template that is rendered more than once: the first render may be to
\* a sink that refuses a write
InitAgain == InitWith(CallTemplates, {NoLimit} \cup 0..MaxSink)

Running == result = "Running"

DoPieceNone  == Running /\ PieceAtEnd(Cur) /\ Apply(PieceNone(Cur))
DoPieceBrace == Running /\ PieceAtBrace(Cur) /\ Apply(PieceBrace(Cur))
DoPieceOther == Running /\ PieceAtOther(Cur) /\ Apply(PieceOther(Cur))
DoArg        == Running /\ state = "Arg" /\ Apply(Arg(Cur))
DoSpecClose  == Running /\ SpecAtClose(Cur) /\ Apply(SpecClose(Cur))
DoSpecOpen   == Running /\ SpecAtOpen(Cur) /\ Apply(SpecOpen(Cur))
DoSpecColon  == Running /\ SpecAtColon(Cur) /\ Apply(SpecColon(Cur))
DoSpecDot    == Running /\ SpecAtDot(Cur) /\ Apply(SpecDot(Cur))
DoSpecOther  == Running /\ SpecAtOther(Cur) /\ Apply(SpecOther(Cur))
DoSpecNone   == Running /\ SpecAtNone(Cur) /\ Apply(SpecNone(Cur))

Next ==
    \/ DoPieceNone
    \/ DoPieceBrace
    \/ DoPieceOther
    \/ DoArg
    \/ DoSpecClose
    \/ DoSpecOpen
    \/ DoSpecColon
    \/ DoSpecDot
    \/ DoSpecOther
    \/ DoSpecNone

\* Again that does not take a new iterator from self.args: the iterator of
\* the render before goes on.
AgainKeepsIterator(s, a) ==
    [s EXCEPT !.args = a, !.sink = NoLimit, !.out = <<>>,
              !.result = "Running", !.state = "Piece",
              !.pos_range = <<0, 0>>, !.width_range = <<0, 0>>,
              !.precision_range = <<0, 0>>, !.fmt = s.tmpl,
              !.piece_end = 0, !.i = 0]

\* `fmt` is entered once more for the same template, where s is what the
\* render before has left behind.  What is assigned here is what the code
\* assigns before its loop, one field for each `let mut` of lines 157 to
\* 166, and the argument list and the new String of `format`; a field that
\* is not assigned keeps the value the render before gave it.
Again(s, a) ==
    [s EXCEPT !.args = a,                      \* Arguments::new(self, args)
              !.sink = NoLimit, !.out = <<>>,  \* the String of format!
              !.result = "Running",
              !.state = "Piece",
              !.pos_range = <<0, 0>>,
              !.width_range = <<0, 0>>,
              !.precision_range = <<0, 0>>,
              !.next_arg = 0,                  \* self.args.into_iter()
              !.fmt = s.tmpl,                  \* self.fmt.as_ref()
              !.piece_end = 0,
              !.i = 0]

\* `format` is called once more on the template, as in
\* test_format_with_string_format, with the same or with other arguments,
\* after a render that has returned: with Ok, or with the error of its
\* sink, wherever in the template that was.
DoCallAgain ==
    /\ result \in {"Ok", "Err"}
    /\ calls < MaxCalls
    /\ \E a \in ListsOf(ty) : Become(Again(Cur, a))
    /\ calls' = calls + 1
    /\ earlier' = Append(earlier,
                         [args |-> args, out |-> out, result |-> result])

NextAgain == Next \/ DoCallAgain

Spec == Init /\ [][Next]_vars

SpecSink == InitSink /\ [][Next]_vars

SpecFields == InitFields /\ [][Next]_vars

SpecAgain == InitAgain /\ [][NextAgain]_vars

\* Templates of multi-byte characters, rendered with `format`
SpecUtf8 == InitUtf8 /\ [][Next]_vars

\* The loop runs on until `fmt` returns: an iteration that can be taken is
\* taken.
SpecLive == InitLive /\ [][Next]_vars /\ WF_vars(Next)

-----------------------------------------------------------------------------
(* What a template means, read off the template itself: the reference the  *)
(* claims compare a render with.                                           *)

Done == result # "Running"

IsBrace(c) == c \in {"{", "}"}

NoBrace(s) == \A k \in 1..Len(s) : ~IsBrace(s[k])

\* How many elements of s are in the set cs
Count(s, cs) == Cardinality({k \in 1..Len(s) : s[k] \in cs})

\* The index of the first c in s, or 0
IndexOf(s, c) ==
    IF \E k \in 1..Len(s) : s[k] = c
    THEN CHOOSE k \in 1..Len(s) : s[k] = c /\ \A j \in 1..(k - 1) : s[j] # c
    ELSE 0

Drop(s, n) == SubSeq(s, n + 1, Len(s))

IsPrefix(p, s) == Len(p) <= Len(s) /\ SubSeq(s, 1, Len(p)) = p

\* A template made of brace-free text and empty placeholders `{}` only
RECURSIVE IsSequential(_)
IsSequential(t) ==
    IF t = <<>> THEN TRUE
    ELSE IF Head(t) = "{"
    THEN Len(t) >= 2 /\ t[2] = "}" /\ IsSequential(Drop(t, 2))
    ELSE Head(t) # "}" /\ IsSequential(Tail(t))

\* Such a template with its k-th placeholder (from n) replaced by the text
\* of a[k], or by nothing when a has no k-th value
RECURSIVE Substituted(_, _, _)
Substituted(t, a, n) ==
    IF t = <<>> THEN <<>>
    ELSE IF Head(t) = "{"
    THEN (IF n < Len(a) THEN ToDigits(a[n + 1]) ELSE <<>>)
             \o Substituted(Drop(t, 2), a, n + 1)
    ELSE <<Head(t)>> \o Substituted(Tail(t), a, n)

\* The number of `{{` and `}}` in t, read from left to right
RECURSIVE EscapedPairs(_)
EscapedPairs(t) ==
    IF Len(t) < 2 THEN 0
    ELSE IF IsBrace(t[1]) /\ t[2] = t[1] THEN 1 + EscapedPairs(Drop(t, 2))
    ELSE EscapedPairs(Tail(t))

\* The three fields of a placeholder, from the text c between its braces:
\* the position ends at the first `:`, the width at the first `.` after it
AfterColon(c) == IF IndexOf(c, ":") = 0 THEN <<>> ELSE Drop(c, IndexOf(c, ":"))

FieldPos(c) ==
    IF IndexOf(c, ":") = 0 THEN c ELSE SubSeq(c, 1, IndexOf(c, ":") - 1)

FieldWidth(c) ==
    LET r == AfterColon(c)
    IN  IF IndexOf(r, ".") = 0 THEN r ELSE SubSeq(r, 1, IndexOf(r, ".") - 1)

\* A placeholder without position: a sequential reference
IsSequentialRef(c) == trim(FieldPos(c)) = <<>>

\* A placeholder whose position is a number: an explicit index
IsExplicitRef(c) == ~IsSequentialRef(c) /\ ParseUsize(trim(FieldPos(c))) >= 0

\* The 0-based index of the argument a placeholder addresses when n
\* sequential references came before it, or -1 when it addresses none
Addressed(c, a, n) ==
    LET k == IF IsSequentialRef(c) THEN n ELSE ParseUsize(trim(FieldPos(c)))
    IN  IF 0 <= k /\ k < Len(a) THEN k ELSE -1

FieldPrecision(c) ==
    LET r == AfterColon(c)
    IN  IF IndexOf(r, ".") = 0 THEN <<>> ELSE Drop(r, IndexOf(r, "."))

\* s filled on the left with c up to the length w
PadLeft(s, c, w) ==
    IF Len(s) >= w THEN s ELSE [k \in 1..(w - Len(s)) |-> c] \o s

\* The text of the value v under the width text wt
Rendered(v, wt) ==
    IF ParseUsize(wt) < 0 THEN ToDigits(v)
    ELSE PadLeft(ToDigits(v), IF Head(wt) = "0" THEN "0" ELSE " ",
                 ParseUsize(wt))

\* The text of a value v of type y: plain, or an f64 with p digits after
\* the point
PlainText(y, v) == IF y = "f64" THEN FloatPlain(v) ELSE ToDigits(v)

FixedText(y, v, p) == IF y = "f64" THEN FloatFixed(v, p) ELSE ToDigits(v)

\* The fill character that a width text asks for
FillOf(wt) == IF Head(wt) = "0" THEN "0" ELSE " "

\* The text of the value v of type y under the placeholder text c
ValueText(y, v, c) ==
    LET w == ParseUsize(FieldWidth(c))
        p == ParseUsize(FieldPrecision(c))
        t == IF p < 0 THEN PlainText(y, v) ELSE FixedText(y, v, p)
    IN  IF w < 0 THEN t ELSE PadLeft(t, FillOf(FieldWidth(c)), w)

\* What a placeholder stands for
PlaceholderText(c, a, n) ==
    IF Addressed(c, a, n) < 0 THEN <<>>
    ELSE Rendered(a[Addressed(c, a, n) + 1], FieldWidth(c))

\* A template in which every brace belongs to an escaped pair or is one of
\* the two braces of a placeholder with no brace inside
RECURSIVE WellFormed(_)
WellFormed(t) ==
    IF t = <<>> THEN TRUE
    ELSE IF ~IsBrace(Head(t)) THEN WellFormed(Tail(t))
    ELSE IF Len(t) >= 2 /\ t[2] = Head(t) THEN WellFormed(Drop(t, 2))
    ELSE /\ Head(t) = "{"
         /\ IndexOf(t, "}") > 0
         /\ NoBrace(SubSeq(t, 2, IndexOf(t, "}") - 1))
         /\ WellFormed(Drop(t, IndexOf(t, "}")))

\* What a well-formed template stands for, when n sequential references
\* came before it
RECURSIVE Meaning(_, _, _)
Meaning(t, a, n) ==
    IF t = <<>> THEN <<>>
    ELSE IF ~IsBrace(Head(t)) THEN <<Head(t)>> \o Meaning(Tail(t), a, n)
    ELSE IF t[2] = Head(t) THEN <<Head(t)>> \o Meaning(Drop(t, 2), a, n)
    ELSE LET c == SubSeq(t, 2, IndexOf(t, "}") - 1)
         IN  PlaceholderText(c, a, n)
                 \o Meaning(Drop(t, IndexOf(t, "}")), a,
                            IF IsSequentialRef(c) THEN n + 1 ELSE n)

\* The placeholders of a well-formed template, as the texts between their
\* braces
RECURSIVE Placeholders(_)
Placeholders(t) ==
    IF t = <<>> THEN <<>>
    ELSE IF ~IsBrace(Head(t)) THEN Placeholders(Tail(t))
    ELSE IF t[2] = Head(t) THEN Placeholders(Drop(t, 2))
    ELSE <<SubSeq(t, 2, IndexOf(t, "}") - 1)>>
             \o Placeholders(Drop(t, IndexOf(t, "}")))

\* How many of them are sequential references
Sequentials(t) ==
    Cardinality({k \in 1..Len(Placeholders(t)) :
                    IsSequentialRef(Placeholders(t)[k])})

\* In State::Arg: the text between the braces of the placeholder that was
\* just closed.  Its `}` is the byte before offset i, its `{` the last one
\* before that.
ClosedText ==
    LET p == CHOOSE p \in 1..(i - 1) :
                 tmpl[p] = "{" /\ \A q \in (p + 1)..(i - 1) : tmpl[q] # "{"
    IN  SubSeq(tmpl, p + 1, i - 1)

AtArg == result = "Running" /\ state = "Arg"

-----------------------------------------------------------------------------
(* C1: for a template of brace-free literal spans separated by n empty     *)
(* placeholders and an argument list of length m >= n, render returns Ok   *)
(* and has written the literal spans in order with the i-th placeholder    *)
(* replaced by the text of args[i]; the iterator has yielded exactly the   *)
(* first n arguments, so those at index >= n are never written.            *)
C1_SequentialEnoughArgs ==
    (Done /\ IsSequential(tmpl) /\ Len(args) >= Count(tmpl, {"{"}))
        => /\ result = "Ok"
           /\ out = Substituted(tmpl, args, 0)
           /\ next_arg = Count(tmpl, {"{"})

\* "{}a{}" rendered with [1, 2, 3]: "1a2", the third argument unused
C1_Witness ==
    /\ result = "Ok"
    /\ tmpl = <<"{", "}", "a", "{", "}">>
    /\ args = <<1, 2, 3>>
    /\ out = <<"1", "a", "2">>

(* C2: for a template with n empty placeholders and m < n arguments,       *)
(* render returns Ok; the first m placeholders are replaced by args[0] to  *)
(* args[m-1], the later ones by nothing, and every literal span is         *)
(* written in order.                                                       *)
C2_SequentialMissingArgs ==
    (Done /\ IsSequential(tmpl) /\ Len(args) < Count(tmpl, {"{"}))
        => /\ result = "Ok"
           /\ out = Substituted(tmpl, args, 0)
           /\ next_arg = Len(args)

\* "{}a{}b{}c" rendered with [1, 2]: "1a2bc"
C2_Witness ==
    /\ result = "Ok"
    /\ tmpl = <<"{", "}", "a", "{", "}", "b", "{", "}", "c">>
    /\ args = <<1, 2>>
    /\ out = <<"1", "a", "2", "b", "c">>

(* C10: for a template without `{` and `}` and any argument list, render   *)
(* returns Ok and has written exactly the template; no argument is read.   *)
C10_BraceFreeIsIdentity ==
    (Done /\ NoBrace(tmpl)) => (result = "Ok" /\ out = tmpl /\ next_arg = 0)

\* "y1y" rendered with [1, 2]
C10_Witness ==
    /\ result = "Ok"
    /\ tmpl = <<"y", "1", "y">>
    /\ args = <<1, 2>>
    /\ out = <<"y", "1", "y">>

(* C3: in a template whose braces all belong to escaped pairs or to      *)
(* closed placeholders, and that holds an escaped pair, `{{` is written as *)
(* one `{` and `}}` as one `}`, the text between them is written as it     *)
(* stands and resolves no argument, and the iterator has advanced once per *)
(* sequential placeholder only: render returns Ok with the meaning of the  *)
(* template as its output.                                                 *)
C3_EscapedPairs ==
    (Done /\ WellFormed(tmpl) /\ EscapedPairs(tmpl) > 0)
        => /\ result = "Ok"
           /\ out = Meaning(tmpl, args, 0)
           /\ next_arg = Min(Sequentials(tmpl), Len(args))

\* "{{:01}}{:04}" rendered with [1, 2]: "{:01}0001"
C3_Witness ==
    /\ result = "Ok"
    /\ tmpl = <<"{", "{", ":", "0", "1", "}", "}", "{", ":", "0", "4", "}">>
    /\ args = <<1, 2>>
    /\ out = <<"{", ":", "0", "1", "}", "0", "0", "0", "1">>
    /\ next_arg = 1

\* The step of C4: an explicit index in range
C4_ExplicitStep ==
    (AtArg /\ IsExplicitRef(ClosedText)
           /\ Addressed(ClosedText, args, next_arg) >= 0)
        => /\ next_arg' = next_arg
           /\ out' = out \o Rendered(
                  args[ParseUsize(trim(FieldPos(ClosedText))) + 1],
                  FieldWidth(ClosedText))
           /\ result' = "Running"

\* The templates of C4: some placeholder has an explicit index
HasExplicit(t) ==
    \E k \in 1..Len(Placeholders(t)) : IsExplicitRef(Placeholders(t)[k])

C4_Interleaved ==
    (Done /\ WellFormed(tmpl) /\ EscapedPairs(tmpl) = 0 /\ HasExplicit(tmpl))
        => /\ result = "Ok"
           /\ out = Meaning(tmpl, args, 0)
           /\ next_arg = Min(Sequentials(tmpl), Len(args))

(* C4: resolving a closed placeholder whose trimmed position text is a     *)
(* number k < len(args) writes the text of args[k] and leaves the          *)
(* iterator where it was; and a well-formed template without escaped pairs *)
(* that holds an explicit index renders to its meaning, in which the j-th  *)
(* placeholder without position stands for args[j] whatever explicit       *)
(* indexes stand around it.                                                *)
C4_ExplicitIndex == [][C4_ExplicitStep]_vars /\ []C4_Interleaved

\* The step of C5: an explicit index out of range, or no number
C5_UnresolvedStep ==
    (AtArg /\ ~IsSequentialRef(ClosedText)
           /\ Addressed(ClosedText, args, next_arg) < 0)
        => /\ out' = out
           /\ next_arg' = next_arg
           /\ result' = "Running"
           /\ state' = "Piece" /\ piece_end' = 0 /\ fmt' = fmt

HasUnresolved(t, a) ==
    \E k \in 1..Len(Placeholders(t)) :
        /\ ~IsSequentialRef(Placeholders(t)[k])
        /\ Addressed(Placeholders(t)[k], a, 0) < 0

C5_RestRendered ==
    (Done /\ WellFormed(tmpl) /\ HasUnresolved(tmpl, args))
        => (result = "Ok" /\ out = Meaning(tmpl, args, 0))

C6_NeverExhaustedInSpec ==
    /\ ~(result = "Running" /\ InSpec(Cur) /\ fmt = <<>>)
    /\ result # "Panic"

\* The step of C7: a value is addressed and the width text is a number
C7_WidthStep ==
    (AtArg /\ Addressed(ClosedText, args, next_arg) >= 0
           /\ ParseUsize(FieldWidth(ClosedText)) >= 0)
        => /\ out' = out \o PadLeft(
                  ToDigits(args[Addressed(ClosedText, args, next_arg) + 1]),
                  IF Head(FieldWidth(ClosedText)) = "0" THEN "0" ELSE " ",
                  ParseUsize(FieldWidth(ClosedText)))
           /\ result' = "Running"

(* C7: resolving a placeholder that addresses a value and whose width      *)
(* text is a number w writes the text of the value filled on the left up   *)
(* to the length w (and the text alone when it is that long already); the  *)
(* fill character is `0` if the width text starts with `0`, and a space    *)
(* otherwise.                                                              *)
C7_Width == [][C7_WidthStep]_vars

(* C8, as the spec states it: for every template, the number of `{` and    *)
(* `}` in the output of a render equals the number of escaped pairs of the *)
(* template.                                                               *)
C8_BracesAllTemplates ==
    (result = "Ok") => (Count(out, {"{", "}"}) = EscapedPairs(tmpl))

(* C8, amended: for every well-formed template (each brace belongs to an   *)
(* escaped pair or to a closed placeholder with no brace inside), a render *)
(* that returns Ok has as many `{` and `}` in its output as the template   *)
(* has escaped pairs.                                                      *)
C8_BracesWellFormed ==
    (Done /\ WellFormed(tmpl) /\ result = "Ok")
        => (Count(out, {"{", "}"}) = EscapedPairs(tmpl))

\* "{{}}{}" rendered with [1, 2]: two escaped pairs, two braces written
C8_Witness ==
    /\ result = "Ok"
    /\ tmpl = <<"{", "{", "}", "}", "{", "}">>
    /\ args = <<1, 2>>
    /\ Count(out, {"{", "}"}) = 2
    /\ EscapedPairs(tmpl) = 2

(* C9: when the sink refuses a write, render returns Err at once: what     *)
(* the sink holds is what it accepted before, a prefix of what the same    *)
(* render writes to a sink that never fails; a render that returns Ok has  *)
(* written all of it, and a render returns Err only when the sink accepts  *)
(* no further write.                                                       *)
C9_SinkFailure ==
    LET full == Render(tmpl, args, NoLimit)
    IN  /\ IsPrefix(out, full.out)
        /\ (result = "Err") => (sink = 0)
        /\ (result = "Ok") => (out = full.out /\ full.result = "Ok")
        /\ (result = "Panic") => (out = full.out /\ full.result = "Panic")

\* "{}a{}b{}c" rendered with [1, 2, 3] to a sink that accepts three writes
C9_Witness ==
    /\ result = "Err"
    /\ tmpl = <<"{", "}", "a", "{", "}", "b", "{", "}", "c">>
    /\ args = <<1, 2, 3>>
    /\ out = <<"1">>
    /\ sink = 0

-----------------------------------------------------------------------------
\* In State::Arg: the value that the placeholder just closed addresses, as
\* <<v>>, or <<>> when it addresses none
ClosedValue ==
    IF Addressed(ClosedText, args, next_arg) < 0 THEN <<>>
    ELSE <<args[Addressed(ClosedText, args, next_arg) + 1]>>

\* A placeholder whose position has whitespace around it, or nothing else
PaddedPos(c) == FieldPos(c) # trim(FieldPos(c)) \/ IsSequentialRef(c)

C11_TrimStep ==
    AtArg /\ PaddedPos(ClosedText) =>
        LET c == ClosedText
            t == trim(FieldPos(c))
            k == IF t = <<>> THEN next_arg ELSE ParseUsize(t)
        IN  /\ out' = out \o (IF 0 <= k /\ k < Len(args)
                               THEN ValueText(ty, args[k + 1], c) ELSE <<>>)
            /\ next_arg' = IF t # <<>> THEN next_arg
                           ELSE IF next_arg < Len(args) THEN next_arg + 1
                           ELSE next_arg
            /\ result' = "Running"

(* C11: whitespace around the position text of a placeholder is ignored:   *)
(* the placeholder addresses the argument that its trimmed position names, *)
(* and a position that is empty after trimming is a sequential reference,  *)
(* which takes the argument at the cursor and advances the cursor.         *)
C11_PositionTrimmed == [][C11_TrimStep]_vars

\* "{1 }a{:4}b{0}c" with [1, 2] has been rendered as "2a   1b1c".
C11_Witness ==
    /\ Done
    /\ ty = "i32"
    /\ tmpl = <<"{", "1", " ", "}", "a", "{", ":", "4", "}", "b", "{", "0",
                "}", "c">>
    /\ args = <<1, 2>>
    /\ result = "Ok"
    /\ out = <<"2", "a", " ", " ", " ", "1", "b", "1", "c">>

-----------------------------------------------------------------------------
C12_UnparsedStep ==
    AtArg /\ ClosedValue # <<>> =>
        LET c == ClosedText
            v == ClosedValue[1]
            w == ParseUsize(FieldWidth(c))
            p == ParseUsize(FieldPrecision(c))
        IN  /\ w < 0 /\ p < 0 => out' = out \o PlainText(ty, v)
            /\ w < 0 /\ p >= 0 => out' = out \o FixedText(ty, v, p)
            /\ w >= 0 /\ p < 0 =>
                   out' = out \o PadLeft(PlainText(ty, v),
                                         FillOf(FieldWidth(c)), w)
            /\ w < 0 \/ p < 0 => result' = "Running" /\ state' = "Piece"

(* C12: a width text or a precision text that is empty or does not parse   *)
(* as a number (these texts are not trimmed, so whitespace in them makes   *)
(* them unparsable, and so does a number above usize::MAX) gives no width, *)
(* or no precision; the value is still rendered, without padding or in its *)
(* plain form, and no error is reported.                                   *)
C12_UnparsedFields == [][C12_UnparsedStep]_vars

-----------------------------------------------------------------------------
\* The text that a step has appended to out
Appended == SubSeq(out', Len(out) + 1, Len(out'))

C13_PrecisionStep ==
    AtArg /\ ClosedValue # <<>> /\ ParseUsize(FieldPrecision(ClosedText)) >= 0
    =>  LET c == ClosedText
            v == ClosedValue[1]
            p == ParseUsize(FieldPrecision(c))
            n == Len(Appended)
        IN  /\ Len(out') >= Len(out)
            /\ out' = out \o ValueText(ty, v, c)
            /\ ty = "i32" => Appended = Rendered(v, FieldWidth(c))
            /\ ty = "f64" /\ p > 0 =>
                   /\ n > p
                   /\ Appended[n - p] = "."
                   /\ \A k \in (n - p + 1)..n : IsDigit(Appended[k])
            /\ ty = "f64" /\ p = 0 => \A k \in 1..n : Appended[k] # "."

(* C13: when a placeholder carries a precision, with or without a width,   *)
(* both are handed to the formatter of the value: an integer is written as *)
(* with the width alone, and a fractional value is written with exactly as *)
(* many digits after the point as the precision says.                      *)
C13_WidthAndPrecision == [][C13_PrecisionStep]_vars

-----------------------------------------------------------------------------
\* A render has ended as every earlier render of the template with the same
\* arguments did; of an earlier render that its sink stopped, the output is
\* the beginning of this one.
C14_SameAsEarlier ==
    Done =>
        \A k \in 1..Len(earlier) :
            earlier[k].args = args =>
                IF earlier[k].result = "Err"
                THEN IsPrefix(earlier[k].out, out)
                ELSE earlier[k].out = out /\ earlier[k].result = result

\* A later render has ended as a first render of the template with its
\* arguments does, whatever the renders before it were given and however
\* they ended.
C14_AsFirstRender ==
    Done /\ calls > 1 =>
        /\ out = Render(tmpl, args, NoLimit).out
        /\ result = Render(tmpl, args, NoLimit).result
        /\ next_arg = Render(tmpl, args, NoLimit).next_arg

\* Read off the template: in a later render the k-th placeholder without a
\* position stands for args[k - 1], the first one for args[0].
C14_FromFirstArgument ==
    Done /\ calls > 1 =>
        /\ IsSequential(tmpl) =>
               /\ result = "Ok"
               /\ out = Substituted(tmpl, args, 0)
               /\ next_arg = Min(Count(tmpl, {"{"}), Len(args))
        /\ WellFormed(tmpl) /\ EscapedPairs(tmpl) > 0 =>
               /\ result = "Ok"
               /\ out = Meaning(tmpl, args, 0)
               /\ next_arg = Min(Sequentials(tmpl), Len(args))

-----------------------------------------------------------------------------
(* C15: as the test complex_case_2 of src/test-no_std asserts, rendering   *)
(* "{{{}}}x{y}" with [1, 2, 3] writes exactly "{1}xy".  (The render writes *)
(* "{1}x": `y` is the position text of a placeholder, it does not parse,   *)
(* and the placeholder writes nothing; the test complex_case_2 of          *)
(* src/src/lib.rs asserts "{1}x".)                                         *)
C15_NoStdComplexCase2 ==
    /\ Done
    /\ tmpl = <<"{", "{", "{", "}", "}", "}", "x", "{", "y", "}">>
    /\ args = <<1, 2, 3>>
    => out = <<"{", "1", "}", "x", "y">>

-----------------------------------------------------------------------------
\* A sequential reference has just been closed and an argument is left
TakesNext == AtArg /\ IsSequentialRef(ClosedText) /\ next_arg < Len(args)

C16_CursorStep ==
    /\ next_arg' >= next_arg
    /\ next_arg' # next_arg => TakesNext /\ next_arg' = next_arg + 1
    /\ TakesNext => next_arg' = next_arg + 1
    /\ next_arg = Len(args) => next_arg' = Len(args)

(* C16: within one render the cursor never decreases; it advances, by      *)
(* exactly one, only when a placeholder closed by `}` has a position that  *)
(* is empty after trimming and an argument remains; every other step       *)
(* leaves it unchanged, and once it is exhausted it stays exhausted.       *)
C16_CursorMonotone == [][C16_CursorStep]_vars

\* "{1}{}" with [1, 2, 3] has been rendered: the explicit reference left
\* the cursor alone, the sequential one moved it to 1.
C16_Witness ==
    /\ Done
    /\ tmpl = <<"{", "1", "}", "{", "}">>
    /\ args = <<1, 2, 3>>
    /\ next_arg = 1
    /\ out = <<"2", "1">>

-----------------------------------------------------------------------------
\* What is left to do: two for every byte not yet scanned, and one for a
\* placeholder that is open or closed and not yet rendered
Measure ==
    2 * (Len(fmt) - piece_end) + (IF state = "Piece" THEN 0 ELSE 1)

\* An iteration consumes template bytes, extends the pending literal piece,
\* changes the state, or leaves the loop; and it makes the measure smaller.
C17_ProgressStep ==
    Running =>
        \/ result' # "Running"
        \/ /\ \/ Len(fmt') < Len(fmt)
               \/ (fmt' = fmt /\ piece_end' > piece_end)
               \/ (fmt' = fmt /\ state' # state)
           /\ Measure' < Measure

\* While the loop runs the measure is between 0 and twice the length of
\* the template.
C17_Bounded == Running => 0 <= Measure /\ Measure <= 2 * Len(tmpl)

(* C17: for every template and argument list render eventually stops:      *)
(* every iteration of the loop consumes at least one template byte,        *)
(* extends the pending literal span, or changes the state and is followed  *)
(* by such progress, so that the loop is left after a number of iterations *)
(* bounded by the length of the template (at most twice the length, plus   *)
(* one).                                                                   *)
C17_Terminates ==
    /\ <>Done
    /\ [][C17_ProgressStep]_vars
    /\ []C17_Bounded

\* "{{{}}}x{{}" with [1, 2, 3], a template of 10 bytes, has been rendered
\* to the end, as "{1}x{".
C17_Witness ==
    /\ Done
    /\ tmpl = <<"{", "{", "{", "}", "}", "}", "x", "{", "{", "}">>
    /\ args = <<1, 2, 3>>
    /\ sink = NoLimit
    /\ result = "Ok"
    /\ out = <<"{", "1", "}", "x", "{">>

-----------------------------------------------------------------------------
\* The index of the first brace of s, or 0
FirstBrace(s) ==
    IF NoBrace(s) THEN 0
    ELSE CHOOSE k \in 1..Len(s) :
             IsBrace(s[k]) /\ NoBrace(SubSeq(s, 1, k - 1))

\* The index of the second brace of s, or 0
SecondBrace(s) ==
    IF FirstBrace(s) = 0 \/ FirstBrace(Drop(s, FirstBrace(s))) = 0 THEN 0
    ELSE FirstBrace(s) + FirstBrace(Drop(s, FirstBrace(s)))

\* A `{` is met in a spec state: nothing is written, no argument is taken,
\* and the brace is the first byte of a literal piece.
C18_AbortStep ==
    Running /\ InSpec(Cur) /\ fmt # <<>> /\ Head(fmt) = "{" =>
        /\ out' = out
        /\ next_arg' = next_arg
        /\ state' = "Piece"
        /\ fmt' = fmt
        /\ piece_end' = 1
        /\ result' = "Running"

\* A template whose first two braces are both `{`: what is between them is
\* lost, and the render is that of the text before the first, one `{`, and
\* the render of what follows the second.
C18_AbortedOutput ==
    Done /\ SecondBrace(tmpl) > 0 /\ tmpl[FirstBrace(tmpl)] = "{"
         /\ tmpl[SecondBrace(tmpl)] = "{"
    =>  LET pre  == SubSeq(tmpl, 1, FirstBrace(tmpl) - 1)
            post == Render(Drop(tmpl, SecondBrace(tmpl)), args, NoLimit)
        IN  /\ out = pre \o <<"{">> \o post.out
            /\ result = post.result
            /\ next_arg = post.next_arg

(* C18: when `{` is met in a spec state (ArgPos, ArgWidth, ArgPrecision)    *)
(* the placeholder in progress is given up: the text captured for it is    *)
(* never written and never resolved, no argument is consumed, the          *)
(* tokenizer is back in the literal state, and that `{` is written as      *)
(* exactly one literal `{`.                                                *)
C18_OpenAborts == [][C18_AbortStep]_vars /\ []C18_AbortedOutput

\* "{1{}" with [1, 2, 3] has been rendered as "{": the position `1` was
\* given up with its placeholder.
C18_Witness ==
    /\ Done
    /\ tmpl = <<"{", "1", "{", "}">>
    /\ args = <<1, 2, 3>>
    /\ result = "Ok"
    /\ next_arg = 0
    /\ out = <<"{">>

-----------------------------------------------------------------------------
\* The literal scan is at a `}`: the piece before it is written, the brace
\* is consumed, and the byte after it is the first byte of the next piece.
C19_RightStep ==
    Running /\ state = "Piece" /\ piece_end < Len(fmt)
            /\ fmt[piece_end + 1] = "}"
    =>  /\ out' = out \o SubSeq(fmt, 1, piece_end)
        /\ next_arg' = next_arg
        /\ state' = "Piece"
        /\ IF piece_end + 1 = Len(fmt) THEN result' = "Ok"
           ELSE /\ result' = "Running"
                /\ fmt' = Drop(fmt, piece_end + 1)
                /\ piece_end' = 1

\* A template whose first brace is a `}` with a byte after it: the render
\* is that of the text before the brace, the byte after it as it stands,
\* and the render of what follows.
C19_RightOutput ==
    Done /\ FirstBrace(tmpl) > 0 /\ FirstBrace(tmpl) < Len(tmpl)
         /\ tmpl[FirstBrace(tmpl)] = "}"
    =>  LET pre  == SubSeq(tmpl, 1, FirstBrace(tmpl) - 1)
            post == Render(Drop(tmpl, FirstBrace(tmpl) + 1), args, NoLimit)
        IN  /\ out = pre \o <<tmpl[FirstBrace(tmpl) + 1]>> \o post.out
            /\ result = post.result
            /\ next_arg = post.next_arg

(* C19: when the literal scan finds `}`, the literal span before it is     *)
(* written, the `}` is consumed and nothing is written for it, the         *)
(* tokenizer stays in the literal state, and the byte after the `}` is the *)
(* first byte of the next literal span without being looked at as a brace: *)
(* `}}` writes one `}`, and a `{` right after a `}` is written as it       *)
(* stands and opens no placeholder.                                        *)
C19_RightBrace == [][C19_RightStep]_vars /\ []C19_RightOutput

\* "a}{a" with [1] has been rendered as "a{a".
C19_Witness ==
    /\ Done
    /\ tmpl = <<"a", "}", "{", "a">>
    /\ args = <<1>>
    /\ result = "Ok"
    /\ next_arg = 0
    /\ out = <<"a", "{", "a">>

-----------------------------------------------------------------------------
\* The literal scan is at a `{` that is the last byte of the template.
C20_DanglingStep ==
    Running /\ state = "Piece" /\ piece_end + 1 = Len(fmt)
            /\ fmt[Len(fmt)] = "{"
    =>  /\ out' = out \o SubSeq(fmt, 1, piece_end)
        /\ result' = "Ok"
        /\ next_arg' = next_arg

\* A template whose only brace is a `{` at its end
C20_DanglingOutput ==
    Done /\ FirstBrace(tmpl) > 0 /\ FirstBrace(tmpl) = Len(tmpl)
         /\ tmpl[Len(tmpl)] = "{"
    =>  /\ out = SubSeq(tmpl, 1, Len(tmpl) - 1)
        /\ result = "Ok"
        /\ next_arg = 0

(* C20: when the literal scan finds a `{` that is the last byte of the     *)
(* template, render writes the literal span before it, writes nothing for  *)
(* the brace and stops with Ok; no argument is consumed for it.            *)
C20_DanglingOpen == [][C20_DanglingStep]_vars /\ []C20_DanglingOutput

\* "{{}}x{{}{}}y{" with [1, 2, 3] has been rendered as "{}x{{}y".
C20_Witness ==
    /\ Done
    /\ tmpl = <<"{", "{", "}", "}", "x", "{", "{", "}", "{", "}", "}", "y",
                "{">>
    /\ args = <<1, 2, 3>>
    /\ result = "Ok"
    /\ out = <<"{", "}", "x", "{", "{", "}", "y">>

-----------------------------------------------------------------------------
\* A captured range lies inside the consumed part of the template.
RangeOk(r) == 0 <= r[1] /\ r[1] <= r[2] /\ r[2] <= i /\ i <= Len(tmpl)

\* The offsets of a state at the head of the loop.
C21_Offsets ==
    Running =>
        /\ i = Len(tmpl) - Len(fmt)
        /\ fmt = Drop(tmpl, i)
        /\ piece_end <= Len(fmt)
        /\ RangeOk(pos_range)
        /\ RangeOk(width_range)
        /\ RangeOk(precision_range)

\* The slices State::Arg takes of the template are the three fields of the
\* placeholder just closed.
C21_Slices ==
    AtArg =>
        /\ Slice(tmpl, pos_range[1], pos_range[2]) = FieldPos(ClosedText)
        /\ Slice(tmpl, width_range[1], width_range[2])
               = FieldWidth(ClosedText)
        /\ Slice(tmpl, precision_range[1], precision_range[2])
               = FieldPrecision(ClosedText)

\* The consumed offset never decreases, and stays i = len(template) -
\* len(fmt) in the step that leaves the loop too.
C21_OffsetStep == i' >= i /\ i' = Len(tmpl') - Len(fmt')

(* C21: in every state at the head of the loop the consumed offset i is    *)
(* len(template) - len(fmt) and no step decreases it, piece_end is at most  *)
(* len(fmt), and each of pos_range, width_range and precision_range has    *)
(* start <= end <= i <= len(template); so in State::Arg the three slices    *)
(* of the template are in range and are exactly the position, width and    *)
(* precision text of the placeholder just closed.                          *)
C21_OffsetsAndRanges ==
    [][C21_OffsetStep]_vars /\ [](C21_Offsets /\ C21_Slices)

\* The first placeholder of a test template is closed with all three ranges
\* captured.
C21_Witness ==
    /\ AtArg
    /\ tmpl = <<"{", "2", ":", "0", "4", ".", "1", "}", "a",
                "{", "1", "}", "b", "{", "0", "}", "c">>
    /\ i = 8
    /\ pos_range = <<1, 2>>
    /\ width_range = <<3, 5>>
    /\ precision_range = <<6, 7>>

-----------------------------------------------------------------------------
\* The piece written at a brace, and the rest of fmt kept after it, are cut
\* out of fmt on character boundaries.
C22_PieceSlices ==
    (Running /\ PieceAtBrace(Cur))
        => /\ IsCharBoundary(fmt, piece_end)
           /\ IsCharBoundary(fmt, piece_end + 1)

\* The three fields State::Arg slices out of the template are cut on
\* character boundaries.
C22_ArgSlices ==
    AtArg => /\ IsSliceable(tmpl, pos_range[1], pos_range[2])
             /\ IsSliceable(tmpl, width_range[1], width_range[2])
             /\ IsSliceable(tmpl, precision_range[1], precision_range[2])

\* Inside a placeholder, fmt goes on after its first byte on a character
\* boundary.
C22_SpecSlices ==
    (Running /\ InSpec(Cur) /\ fmt # <<>>) => IsCharBoundary(fmt, 1)

\* No render is aborted but the one whose template ends inside a
\* placeholder.
C22_NoAbort == result = "Panic" => (InSpec(Cur) /\ fmt = <<>>)

\* The template of test_format_pos gives its literal text verbatim.
C22_Example ==
    (/\ Done
     /\ tmpl = <<"{", "2", "}", "a", "E4", "B8", "AD", "E6", "96", "87",
                 "E5", "86", "85", "{", "1", "}", "b", "{", "0", "}", "c">>
     /\ args = <<1, 2, 3>>)
        => /\ result = "Ok"
           /\ out = <<"3", "a", "E4", "B8", "AD", "E6", "96", "87",
                      "E5", "86", "85", "2", "b", "1", "c">>

(* C22: for every valid UTF-8 template, every slice render takes of the    *)
(* template starts and ends on a character boundary, in literal text and   *)
(* inside placeholders alike, so that a multi-byte character never aborts  *)
(* the render: multi-byte literal text is written verbatim and a           *)
(* multi-byte character inside a placeholder leaves it unresolved.         *)
C22_NeverSplits ==
    /\ C22_PieceSlices
    /\ C22_ArgSlices
    /\ C22_SpecSlices
    /\ C22_NoAbort
    /\ C22_Example

=============================================================================
